---- MODULE Spec2Model ----
(***************************************************************************)
(* A model of the TruthShield Pro backend: the stored collections (User,   *)
(* GameSession, Family, Threat), the auth and validation middleware, the   *)
(* route handlers and the content classifier.                              *)
(*                                                                         *)
(* A handler is a sequence of steps, one per awaited database call; the    *)
(* synchronous code between two awaits belongs to the step of the await    *)
(* before it.  Step(d, r, fault) is one step of request r on database d;   *)
(* fault says that the awaited call of this step rejects.  Run executes a  *)
(* request to its response.                                                *)
(*                                                                         *)
(* Scores are kept in tenths of a point, so that the 1.5 multiplier and    *)
(* the /10 time penalty of calculateScore stay integers.                   *)
(***************************************************************************)
EXTENDS Integers, Sequences, FiniteSets, TLC

VARIABLES
  db,        \* what requests share: the stored collections and the classifier
  last,      \* the request served last, with its response
  scene,     \* the route file whose handlers the behaviour exercises
  probe,     \* a content and what analyzeContent last returned for it
  inflight,  \* the requests being handled concurrently
  changedAt  \* per user, the time of the last successful password change

vars == <<db, last, scene, probe, inflight, changedAt>>

(***************************************************************************)
(* Bounds of the model.                                                    *)
(***************************************************************************)
\* answers submitted to one session in SpecGame
MaxAnswers == 14
\* the step of a handler whose awaited call rejects (0: none)
MaxFaultStep == 5

UserIds == {1, 2, 3}

Max(a, b) == IF a >= b THEN a ELSE b

\* Math.round of the non-negative quotient n / d
RoundDiv(n, d) == (2 * n + d) \div (2 * d)

(***************************************************************************)
(* Schemas.                                                                *)
(***************************************************************************)
GameTypes == {"scam_spotter", "threat_hunter", "firewall_commander",
              "privacy_guardian", "crypto_defender", "social_sentinel"}

Difficulties == {"easy", "medium", "hard", "expert"}

\* the keys of userSchema.gameProgress
ProgressKeys == {"scamSpotter", "threatHunter", "firewallCommander",
                 "privacyGuardian", "cryptoDefender", "socialSentinel"}

\* the instance methods userSchema defines
UserMethods == {"correctPassword", "updateSecurityScore", "addAchievement",
                "checkLevelUp"}

\* schema maxima, in tenths of a point for the scores
ScoreMax == 10000
AccuracyMax == 100
SecurityScoreMax == 10000
LevelMax == 100

NewProgress == [k \in ProgressKeys |-> [completed |-> FALSE, score |-> 0, level |-> 1]]

\* bcrypt.hash(password, 12), and the password a registered user starts with
Hash(password) == <<"bcrypt", password>>
StrongPassword == "Passw0rd1"

NoUser == [exists |-> FALSE, email |-> "", password |-> <<>>, persona |-> "individual",
           familyParent |-> 0,
           isParent |-> FALSE, experience |-> 0, level |-> 1,
           securityScore |-> 0, gameProgress |-> NewProgress,
           achievements |-> {}]

NewUser(email, persona) ==
  [NoUser EXCEPT !.exists = TRUE, !.email = email, !.persona = persona,
                 !.password = Hash(StrongPassword)]

NoSession == [user |-> 0, gameType |-> "scam_spotter", difficulty |-> "easy",
              score |-> 0, timeSpent |-> 0, correctAnswers |-> 0,
              totalQuestions |-> 0, accuracy |-> 0, level |-> 1,
              completed |-> FALSE, questions |-> 0]

NewSession(user, gameType, difficulty) ==
  [NoSession EXCEPT !.user = user, !.gameType = gameType, !.difficulty = difficulty]

\* familySchema: the relationship enum and a family without children
Relationships == {"son", "daughter", "ward", "other"}

NoFamily == [parent |-> 0, children |-> <<>>]

\* Family.findOne({parent}): the index of the first such family, 0 when none
FindFamilyByParent(d, user) ==
  LET found == {i \in 1..Len(d.families) : d.families[i].parent = user}
  IN IF found = {} THEN 0 ELSE CHOOSE i \in found : \A j \in found : i <= j

\* Family.findOne({'children.child': id})
FindFamilyByChild(d, id) ==
  LET found == {i \in 1..Len(d.families) :
                  \E j \in 1..Len(d.families[i].children) :
                    d.families[i].children[j].child = id}
  IN IF found = {} THEN 0 ELSE CHOOSE i \in found : \A j \in found : i <= j

\* familySchema.methods.addChild up to its save(): the new entry takes the
\* permissions of this.children[0]; it throws when there is none
addChildThrows(family) == Len(family.children) = 0

addChild(family, childId, relationship) ==
  [family EXCEPT !.children =
     Append(@, [child |-> childId,
                relationship |-> IF relationship = "" THEN "other" ELSE relationship])]

FamilyValid(family) ==
  \A j \in 1..Len(family.children) :
    family.children[j].relationship \in Relationships \cup {""}

\* save() of a loaded family: $push of the children added since the load
FamilyWrite(stored, loaded, doc) ==
  [stored EXCEPT !.children =
     @ \o SubSeq(doc.children, Len(loaded.children) + 1, Len(doc.children))]

\* a children entry of the body as the schema casts it: childId is no path of
\* the schema and is dropped, child is kept when the body gives it
CastChild(c) == [child |-> c.child, relationship |-> ""]

RECURSIVE CastChildren(_)
CastChildren(cs) ==
  IF cs = <<>> THEN <<>> ELSE <<CastChild(Head(cs))>> \o CastChildren(Tail(cs))

(***************************************************************************)
(* GameSession methods.                                                    *)
(***************************************************************************)
\* difficultyMultiplier, times ten
DifficultyMultiplier(difficulty) ==
  CASE difficulty = "easy" -> 10
    [] difficulty = "medium" -> 15
    [] difficulty = "hard" -> 20
    [] difficulty = "expert" -> 30

\* calculateScore: reads the accuracy the document holds, which the pre-save
\* hook last set
calculateScore(s) ==
  LET baseScore == s.correctAnswers * 10
      accuracyBonus == s.accuracy * 2
      timePenalty10 == Max(0, s.timeSpent - 300)
  IN [s EXCEPT !.score = Max(0, (baseScore + accuracyBonus)
                                  * DifficultyMultiplier(s.difficulty) - timePenalty10)]

addQuestionResult(s, isCorrect) ==
  calculateScore([s EXCEPT !.questions = @ + 1,
                           !.totalQuestions = @ + 1,
                           !.correctAnswers = IF isCorrect THEN @ + 1 ELSE @])

completeSession(s, elapsed) ==
  calculateScore([s EXCEPT !.completed = TRUE, !.timeSpent = elapsed])

\* the schema's min/max validators, which save() runs before the pre-save hooks
SessionValid(s) ==
  /\ s.score >= 0 /\ s.score <= ScoreMax
  /\ s.accuracy >= 0 /\ s.accuracy <= AccuracyMax
  /\ s.level >= 1 /\ s.level <= 10

\* the pre-save hook
SessionPreSave(s) ==
  IF s.totalQuestions > 0
    THEN [s EXCEPT !.accuracy = RoundDiv(s.correctAnswers * 100, s.totalQuestions)]
    ELSE s

\* save() of a loaded document: $set of the paths that changed since the
\* load, $push of the questions added
SessionWrite(stored, loaded, doc) ==
  [f \in DOMAIN stored |->
     IF f = "questions" THEN stored.questions + (doc.questions - loaded.questions)
     ELSE IF doc[f] # loaded[f] THEN doc[f] ELSE stored[f]]

\* GameSession.findOne({_id, user}): the index of the session, 0 when none
FindSession(d, sessionId, user) ==
  IF sessionId \in 1..Len(d.sessions) /\ d.sessions[sessionId].user = user
    THEN sessionId ELSE 0

(***************************************************************************)
(* User methods and helpers.                                               *)
(***************************************************************************)
\* checkLevelUp: the user after it, and whether it levelled up
checkLevelUp(u) ==
  LET requiredXP == u.level * 100
  IN IF u.experience >= requiredXP
       THEN [u EXCEPT !.level = @ + 1, !.experience = @ - requiredXP]
       ELSE u

LeveledUp(u) == u.experience >= u.level * 100

\* updateSecurityScore: the rounded mean of the positive game scores
RECURSIVE SumScores(_, _)
SumScores(gp, keys) ==
  IF keys = {} THEN 0
  ELSE LET k == CHOOSE x \in keys : TRUE
       IN gp[k].score + SumScores(gp, keys \ {k})

updateSecurityScore(u) ==
  LET played == {k \in DOMAIN u.gameProgress : u.gameProgress[k].score > 0}
      totalScore == SumScores(u.gameProgress, played)
      gameCount == Cardinality(played)
  IN [u EXCEPT !.securityScore =
        IF gameCount > 0 THEN 10 * RoundDiv(totalScore, 10 * gameCount) ELSE 0]

\* helperUtils.calculateXP (score in tenths)
calculateXP(score, difficulty, timeSpent) ==
  RoundDiv(score * DifficultyMultiplier(difficulty) + 100 * Max(0, 300 - timeSpent),
           1000)

addAchievement(u, achievementId) ==
  checkLevelUp([u EXCEPT !.achievements = @ \cup {achievementId},
                         !.experience = @ + 100])

UserValid(u) ==
  /\ u.securityScore >= 0 /\ u.securityScore <= SecurityScoreMax
  /\ u.level >= 1 /\ u.level <= LevelMax

\* save() of a loaded user document: $set of the paths that changed
UserWrite(stored, loaded, doc) ==
  [f \in DOMAIN stored |-> IF doc[f] # loaded[f] THEN doc[f] ELSE stored[f]]

(***************************************************************************)
(* The content classifier (utils/ai-detection.js).                         *)
(*                                                                         *)
(* A content is kept as what the classifier reads of it: per threat type   *)
(* the keywords it includes and the regular expressions it matches, the    *)
(* domains of its URLs in order, the training documents it shares a term   *)
(* with, and its length.  A confidence is a fraction [n, d].               *)
(***************************************************************************)
ThreatTypes == <<"phishing", "malware", "social_engineering", "financial_scam",
                 "predator_behavior">>

\* per type: the number of keywords and of regular expressions, and the domains
THREAT_PATTERNS ==
  [phishing |-> [keywords |-> 11, patterns |-> 6,
                 domains |-> {"paypal-security.com", "apple-verify.net",
                              "amazon-update.com"}],
   malware |-> [keywords |-> 9, patterns |-> 4, domains |-> {}],
   social_engineering |-> [keywords |-> 8, patterns |-> 4, domains |-> {}],
   financial_scam |-> [keywords |-> 9, patterns |-> 4, domains |-> {}],
   predator_behavior |-> [keywords |-> 8, patterns |-> 5, domains |-> {}]]

\* keyword i of a type holds pattern KeywordPattern[type][i] of that type
\* ('verify your account' matches /verify.*account/i); 0 where it holds none
KeywordPattern ==
  [phishing |-> <<1, 2, 3, 4, 5, 0, 6, 0, 0, 0, 0>>,
   malware |-> <<1, 2, 3, 4, 0, 0, 0, 0, 0>>,
   social_engineering |-> <<1, 0, 3, 4, 0, 0, 0, 0>>,
   financial_scam |-> <<1, 0, 0, 2, 3, 4, 0, 0, 0>>,
   predator_behavior |-> <<1, 2, 3, 4, 5, 0, 0, 0>>]

\* the training documents of init(), by their category
TrainingData == <<"phishing", "phishing", "malware", "malware", "financial_scam",
                  "financial_scam", "predator_behavior", "predator_behavior">>

TypeSet == {ThreatTypes[i] : i \in 1..Len(ThreatTypes)}

\* a text of some characters that holds nothing the classifier looks for
NoContent == [length |-> 100, keywords |-> [t \in TypeSet |-> {}],
              patterns |-> [t \in TypeSet |-> {}], urls |-> <<>>, terms |-> {}]

Frac(n, d) == [n |-> n, d |-> d]
FracAdd(a, b) == [n |-> a.n * b.d + b.n * a.d, d |-> a.d * b.d]
\* a > p/q, a >= p/q
FracGt(a, p, q) == a.n * q > p * a.d
FracGe(a, p, q) == a.n * q >= p * a.d

\* the constructor: confidenceThreshold 0.7, then init()
NewEngine == [initialized |-> FALSE, documents |-> <<>>, confidenceThreshold |-> Frac(7, 10)]

\* init(): tfidf.addDocument for each training text; initialized = true
init(e) == [e EXCEPT !.documents = @ \o TrainingData, !.initialized = TRUE]

AIDetectionEngine == init(NewEngine)

\* the number of URLs of the content whose domain includes a listed domain
RECURSIVE DomainMatches(_, _)
DomainMatches(urls, domains) ==
  IF urls = <<>> THEN 0
  ELSE (IF Head(urls) \in domains THEN 1 ELSE 0) + DomainMatches(Tail(urls), domains)

detectThreatType(e, content, threatType, patterns) ==
  LET totalPatterns == patterns.keywords + patterns.patterns
      domainMatches == DomainMatches(content.urls, patterns.domains)
      matchCount == Cardinality(content.keywords[threatType])
                      + Cardinality(content.patterns[threatType])
                      + 2 * domainMatches
      confidence == IF totalPatterns > 0 THEN Frac(matchCount, totalPatterns)
                    ELSE Frac(0, 1)
  IN [detected |-> totalPatterns > 0
                     /\ FracGt(confidence, e.confidenceThreshold.n,
                               e.confidenceThreshold.d),
      confidence |-> confidence,
      indicators |-> [keywords |-> content.keywords[threatType],
                      patterns |-> content.patterns[threatType],
                      domains |-> domainMatches]]

\* tfidf.documents[i].category: TfIdf keeps a document as its term counts with
\* the second argument of addDocument under __key, so the read finds no
\* category and the score is summed under the key 'undefined'
DocumentCategory(e, i) == "undefined"

\* the measures are sums of tf * idf, none negative; a document's measure is
\* positive when the content shares a term with it
classifyWithTFIDF(e, content) ==
  LET positive == {i \in 1..Len(e.documents) :
                     ((i - 1) % Len(TrainingData)) + 1 \in content.terms}
      categories == {DocumentCategory(e, i) : i \in positive}
  IN IF positive = {} THEN [category |-> "null", confidence |-> Frac(0, 1)]
     ELSE [category |-> CHOOSE c \in categories : TRUE, confidence |-> Frac(1, 1)]

calculateSeverity(threatType, confidence) ==
  LET baseSeverity ==
        CASE threatType \in {"phishing", "malware"} -> "high"
          [] threatType \in {"financial_scam", "social_engineering"} -> "medium"
          [] threatType = "predator_behavior" -> "critical"
          [] OTHER -> "low"
  IN IF FracGt(confidence, 9, 10) /\ baseSeverity = "medium" THEN "high"
     ELSE IF FracGt(confidence, 9, 10) /\ baseSeverity = "high" THEN "critical"
     ELSE baseSeverity

RECURSIVE SumConfidence(_)
SumConfidence(threats) ==
  IF threats = <<>> THEN Frac(0, 1)
  ELSE FracAdd(Head(threats).confidence, SumConfidence(Tail(threats)))

calculateOverallConfidence(threats) ==
  IF Len(threats) = 0 THEN Frac(0, 1)
  ELSE LET total == SumConfidence(threats)
       IN Frac(total.n, total.d * Len(threats))

SeverityWeight(severity) ==
  CASE severity = "low" -> 1 [] severity = "medium" -> 2
    [] severity = "high" -> 3 [] severity = "critical" -> 4

RECURSIVE WeightedScore(_)
WeightedScore(threats) ==
  IF threats = <<>> THEN Frac(0, 1)
  ELSE LET t == Head(threats)
       IN FracAdd(Frac(t.confidence.n * SeverityWeight(t.severity), t.confidence.d),
                  WeightedScore(Tail(threats)))

\* a determineRiskLevel that sums the confidences without the weights
determineRiskLevelUnweighted(threats) ==
  IF Len(threats) = 0 THEN "low"
  ELSE LET weightedScore == SumConfidence(threats)
       IN IF FracGe(weightedScore, 3, 1) THEN "critical"
          ELSE IF FracGe(weightedScore, 2, 1) THEN "high"
          ELSE IF FracGe(weightedScore, 1, 1) THEN "medium"
          ELSE "low"

determineRiskLevel(threats) ==
  IF Len(threats) = 0 THEN "low"
  ELSE LET weightedScore == WeightedScore(threats)
       IN IF FracGe(weightedScore, 3, 1) THEN "critical"
          ELSE IF FracGe(weightedScore, 2, 1) THEN "high"
          ELSE IF FracGe(weightedScore, 1, 1) THEN "medium"
          ELSE "low"

\* the recommendations of the threat types in order, each type's once
RECURSIVE generateRecommendations(_)
generateRecommendations(threats) ==
  IF threats = <<>> THEN <<>>
  ELSE LET rest == generateRecommendations(SubSeq(threats, 1, Len(threats) - 1))
           type == threats[Len(threats)].type
       IN IF type \in {"phishing", "malware", "predator_behavior", "financial_scam"}
             /\ \A i \in 1..Len(rest) : rest[i] # type
          THEN Append(rest, type) ELSE rest

\* the threats of the first n types of THREAT_PATTERNS
RECURSIVE DetectedThreats(_, _, _)
DetectedThreats(e, content, n) ==
  IF n = 0 THEN <<>>
  ELSE LET threatType == ThreatTypes[n]
           threatResult == detectThreatType(e, content, threatType,
                                            THREAT_PATTERNS[threatType])
           before == DetectedThreats(e, content, n - 1)
       IN IF threatResult.detected
          THEN Append(before, [type |-> threatType,
                               confidence |-> threatResult.confidence,
                               indicators |-> threatResult.indicators,
                               severity |-> calculateSeverity(threatType,
                                              threatResult.confidence)])
          ELSE before

NoIndicators == [keywords |-> {}, patterns |-> {}, domains |-> 0]

NoAnalysis == [threats |-> <<>>, confidence |-> Frac(0, 1), riskLevel |-> "low",
               indicators |-> <<>>, recommendations |-> <<>>]

\* an analyzeContent that trains the model again on every call with a source
\* in its context and leaves out the TF-IDF threat then
analyzeContentOfContext(e, content, context) ==
  LET e1 == IF ~e.initialized \/ context.source # "" THEN init(e) ELSE e
      threats == IF context.source # "" THEN <<>>
                 ELSE DetectedThreats(e1, content, Len(ThreatTypes))
  IN [engine |-> e1,
      analysis |-> [threats |-> threats,
                    confidence |-> calculateOverallConfidence(threats),
                    riskLevel |-> determineRiskLevel(threats),
                    indicators |-> <<>>,
                    recommendations |-> generateRecommendations(threats)]]

\* analyzeContent(content, context): the engine after the call and the analysis
analyzeContent(e, content, context) ==
  LET e1 == IF ~e.initialized THEN init(e) ELSE e
      detected == DetectedThreats(e1, content, Len(ThreatTypes))
      tfidfResults == classifyWithTFIDF(e1, content)
      threats ==
        IF FracGt(tfidfResults.confidence, e1.confidenceThreshold.n,
                  e1.confidenceThreshold.d)
        THEN Append(detected,
                    [type |-> tfidfResults.category,
                     confidence |-> tfidfResults.confidence,
                     indicators |-> NoIndicators,
                     severity |-> calculateSeverity(tfidfResults.category,
                                                    tfidfResults.confidence)])
        ELSE detected
  IN [engine |-> e1,
      analysis |-> [threats |-> threats,
                    confidence |-> calculateOverallConfidence(threats),
                    riskLevel |-> determineRiskLevel(threats),
                    indicators |-> <<>>,
                    recommendations |-> generateRecommendations(threats)]]

NoContext == [source |-> ""]

Contexts == {NoContext, [source |-> "email"]}

\* no call of analyzeContent yet
NoProbe == [content |-> NoContent, context |-> NoContext, analysis |-> NoAnalysis,
            analysed |-> FALSE, calls |-> 0]

\* nothing stored yet, the classifier module loaded
EmptyDb == [users |-> [u \in UserIds |-> NoUser], nextId |-> 1, families |-> <<>>,
            sessions |-> <<>>, threats |-> <<>>, engine |-> AIDetectionEngine]

(***************************************************************************)
(* Tokens and headers.  A token is what jwt.verify makes of it: whether it *)
(* carries the server's signature, whether it has expired, and the id it   *)
(* was signed for.                                                         *)
(***************************************************************************)
NoToken == [present |-> FALSE, id |-> 0, signed |-> FALSE, expired |-> FALSE,
            iat |-> 0]

\* signToken(id)
signToken(id) == [present |-> TRUE, id |-> id, signed |-> TRUE, expired |-> FALSE,
                  iat |-> 0]

\* jwt.sign stamps the token with the time of issue (iat).  Time is counted
\* per user in password changes: 0 before the first
signTokenAt(id, now) == [signToken(id) EXCEPT !.iat = now]

\* nobody has changed a password
NeverChanged == [u \in UserIds |-> 0]

\* the Authorization header (scheme "" when absent) and x-truthshield-token
NoHeaders == [authorization |-> [scheme |-> "", token |-> NoToken], xtoken |-> NoToken]

\* what protect did: the status it sent (0 when none), its calls of next()
\* and the req.user it set
NoAuth == [status |-> 0, nexts |-> 0, user |-> 0]

\* no requests in flight: the state they started from, the requests as sent
\* and as far as their handlers have got
NoFlight == [base |-> EmptyDb, sent |-> <<>>, reqs |-> <<>>]

(***************************************************************************)
(* Requests.  A request record holds the route, req.user, the inputs, the  *)
(* handler's position and local documents, and what it has sent.           *)
(***************************************************************************)
NoReq == [route |-> "none", user |-> 0, pc |-> "done",
          sent |-> 0, status |-> 0, threw |-> FALSE, faulted |-> FALSE,
          sessionId |-> 0, known |-> FALSE, isCorrect |-> FALSE, elapsed |-> 0,
          gameType |-> "scam_spotter", difficulty |-> "easy",
          gs0 |-> NoSession, gs |-> NoSession,
          usr0 |-> NoUser, usr |-> NoUser,
          xpGained |-> 0, leveledUp |-> FALSE, achievements |-> <<>>,
          children |-> <<>>, i |-> 0, childId |-> 0, relationship |-> "",
          famId |-> 0, fam0 |-> NoFamily, fam |-> NoFamily,
          email |-> "", persona |-> "individual", password |-> StrongPassword,
          content |-> NoContent, context |-> NoContext, analysis |-> NoAnalysis,
          type |-> "phishing", severity |-> "low", source |-> "email",
          url |-> FALSE, confidence |-> 0,
          firstName |-> "Al", lastName |-> "Smith", age |-> 30,
          score |-> [given |-> FALSE, value |-> 0], familyName |-> 10,
          childrenIsArray |-> TRUE, indicators |-> <<10>>,
          piped |-> FALSE, headers |-> NoHeaders, auth |-> NoAuth,
          bodyErrors |-> {}, errors |-> {}, ran |-> FALSE,
          newPassword |-> "", now |-> 0, token |-> NoToken, errorCode |-> "",
          threatId |-> 0, actionTaken |-> "", resolved |-> "none",
          isFalsePositive |-> "none", page |-> 1, limit |-> 20, threats |-> <<>>]

StartReq(user, gameType, difficulty) ==
  [NoReq EXCEPT !.route = "start", !.user = user, !.pc = "create",
                !.gameType = gameType, !.difficulty = difficulty]

AnswerReq(user, sessionId, known, isCorrect) ==
  [NoReq EXCEPT !.route = "answer", !.user = user, !.pc = "find",
                !.sessionId = sessionId, !.known = known, !.isCorrect = isCorrect]

CompleteReq(user, sessionId, elapsed) ==
  [NoReq EXCEPT !.route = "complete", !.user = user, !.pc = "find",
                !.sessionId = sessionId, !.elapsed = elapsed]

CreateReq(user, children) ==
  [NoReq EXCEPT !.route = "create", !.user = user, !.pc = "find",
                !.children = children]

ChildrenReq(user, childId, relationship) ==
  [NoReq EXCEPT !.route = "children", !.user = user, !.pc = "find",
                !.childId = childId, !.relationship = relationship]

RegisterReq(email, persona) ==
  [NoReq EXCEPT !.route = "register", !.pc = "find",
                !.email = email, !.persona = persona]

LoginReq(email, password) ==
  [NoReq EXCEPT !.route = "login", !.pc = "find",
                !.email = email, !.password = password]

AccountReq(user) ==
  [NoReq EXCEPT !.route = "account", !.user = user, !.pc = "delete"]

ReportReq(user, type, severity, source, url, content, confidence) ==
  [NoReq EXCEPT !.route = "report", !.user = user, !.pc = "analyze",
                !.type = type, !.severity = severity, !.source = source,
                !.url = url, !.content = content, !.confidence = confidence]

AnalyzeReq(user, content, context) ==
  [NoReq EXCEPT !.route = "analyze", !.user = user, !.pc = "analyze",
                !.content = content, !.context = context]

\* DELETE /api/family/children/:childId
RemoveChildReq(user, childId) ==
  [NoReq EXCEPT !.route = "remove-child", !.user = user, !.pc = "find",
                !.childId = childId]

\* PUT /api/threats/:threatId; a body field that is absent is "" or "none"
UpdateThreatReq(user, threatId, actionTaken, resolved, isFalsePositive, now) ==
  [NoReq EXCEPT !.route = "update-threat", !.user = user, !.pc = "find",
                !.threatId = threatId, !.actionTaken = actionTaken,
                !.resolved = resolved, !.isFalsePositive = isFalsePositive,
                !.now = now]

\* GET /api/threats/history?resolved=&page=&limit=
HistoryReq(user, resolved, page, limit) ==
  [NoReq EXCEPT !.route = "history", !.user = user, !.pc = "find",
                !.resolved = resolved, !.page = page, !.limit = limit]

\* res.status(code).json(...), after which the handler returns
Respond(d, r, code) ==
  [db |-> d, r |-> [r EXCEPT !.sent = @ + 1, !.status = code, !.pc = "done"]]

\* res.status(code).json(helperUtils.errorResponse(message, errorCode))
RespondError(d, r, code, errorCode) ==
  Respond(d, [r EXCEPT !.errorCode = errorCode], code)

\* a catch block that logs the error and sends nothing
CatchSilent(d, r) ==
  [db |-> d, r |-> [r EXCEPT !.pc = "done"]]

\* the catch block every handler ends with: res.status(500).json(...)
Catch(d, r) ==
  [db |-> d, r |-> [r EXCEPT !.sent = @ + 1, !.status = 500, !.pc = "done"]]

\* an exception inside a handler's try block: control passes to its catch
Throw(d, r) == Catch(d, [r EXCEPT !.threw = TRUE])

Goto(d, r, pc) == [db |-> d, r |-> [r EXCEPT !.pc = pc]]

\* createSendToken(user, statusCode, res): the response carries a token signed
\* for the user at the time the request is handled
createSendToken(d, r, user, statusCode) ==
  Respond(d, [r EXCEPT !.token = signTokenAt(user, r.now)], statusCode)

(***************************************************************************)
(* POST /api/games/start                                                   *)
(***************************************************************************)
StartStep(d, r, fault) ==
  IF fault \/ r.gameType \notin GameTypes \/ r.difficulty \notin Difficulties
    THEN Throw(d, r)
    ELSE Respond([d EXCEPT !.sessions =
                    Append(@, NewSession(r.user, r.gameType, r.difficulty))],
                 r, 201)

(***************************************************************************)
(* POST /api/games/:sessionId/answer                                       *)
(***************************************************************************)
\* an answer handler that does not look at gameSession.completed
AnswerAfterCompletion(d, r, fault) ==
  IF fault THEN Throw(d, r)
  ELSE IF r.pc = "find" THEN
    LET id == FindSession(d, r.sessionId, r.user) IN
    IF id = 0 THEN Respond(d, r, 404)
    ELSE IF ~r.known THEN Respond(d, r, 404)
    ELSE Goto(d, [r EXCEPT !.gs0 = d.sessions[id],
                           !.gs = addQuestionResult(d.sessions[id], r.isCorrect)],
              "save")
  ELSE \* "save"
    IF ~SessionValid(r.gs) THEN Throw(d, r)
    ELSE LET doc == SessionPreSave(r.gs) IN
      Respond([d EXCEPT !.sessions[r.sessionId] = SessionWrite(@, r.gs0, doc)],
              [r EXCEPT !.gs = doc], 200)

AnswerStep(d, r, fault) ==
  IF fault THEN Throw(d, r)
  ELSE IF r.pc = "find" THEN
    LET id == FindSession(d, r.sessionId, r.user) IN
    IF id = 0 THEN Respond(d, r, 404)
    ELSE IF d.sessions[id].completed THEN Respond(d, r, 400)
    ELSE IF ~r.known THEN Respond(d, r, 404)
    ELSE Goto(d, [r EXCEPT !.gs0 = d.sessions[id],
                           !.gs = addQuestionResult(d.sessions[id], r.isCorrect)],
              "save")
  ELSE \* "save"
    IF ~SessionValid(r.gs) THEN Throw(d, r)
    ELSE LET doc == SessionPreSave(r.gs) IN
      Respond([d EXCEPT !.sessions[r.sessionId] = SessionWrite(@, r.gs0, doc)],
              [r EXCEPT !.gs = doc], 200)

(***************************************************************************)
(* POST /api/games/:sessionId/complete                                     *)
(***************************************************************************)
\* the achievements checkAchievements awards, in its order
NewAchievements(u, gs) ==
  SelectSeq(<<"first_game", "perfect_score", "speed_runner">>,
            LAMBDA a : /\ a \notin u.achievements
                       /\ a = "perfect_score" => gs.accuracy = 100
                       /\ a = "speed_runner" => gs.timeSpent < 60)

RECURSIVE AddAchievements(_, _)
AddAchievements(u, as) ==
  IF as = <<>> THEN u ELSE AddAchievements(addAchievement(u, Head(as)), Tail(as))

\* lines 209-234: the user loaded, its progress, experience and security
\* score updated in memory
CompleteUpdateUser(d, r) ==
  LET user == d.users[r.user] IN
  IF ~user.exists \/ r.gs.gameType \notin DOMAIN user.gameProgress
    THEN Throw(d, r)   \* TypeError: user or gameProgress is undefined
    ELSE
      LET gp == user.gameProgress[r.gs.gameType]
          gp1 == IF r.gs.score > gp.score
                   THEN [gp EXCEPT !.score = r.gs.score,
                                   !.level = Max(gp.level, r.gs.level)]
                   ELSE gp
          gp2 == IF r.gs.correctAnswers = r.gs.totalQuestions
                   THEN [gp1 EXCEPT !.completed = TRUE] ELSE gp1
          xp == calculateXP(r.gs.score, r.gs.difficulty, r.gs.timeSpent)
          u1 == [user EXCEPT !.gameProgress[r.gs.gameType] = gp2,
                             !.experience = @ + xp]
      IN Goto(d, [r EXCEPT !.usr0 = user,
                           !.usr = updateSecurityScore(checkLevelUp(u1)),
                           !.xpGained = xp,
                           !.leveledUp = LeveledUp(u1)],
              "usave")

CompleteStep(d, r, fault) ==
  CASE r.pc = "find" ->
         IF fault THEN Throw(d, r)
         ELSE LET id == FindSession(d, r.sessionId, r.user) IN
           IF id = 0 THEN Respond(d, r, 404)
           ELSE IF d.sessions[id].completed THEN Respond(d, r, 400)
           ELSE Goto(d, [r EXCEPT !.gs0 = d.sessions[id],
                                  !.gs = completeSession(d.sessions[id], r.elapsed)],
                     "save")
    [] r.pc = "save" ->
         IF fault \/ ~SessionValid(r.gs) THEN Throw(d, r)
         ELSE LET doc == SessionPreSave(r.gs) IN
           Goto([d EXCEPT !.sessions[r.sessionId] = SessionWrite(@, r.gs0, doc)],
                [r EXCEPT !.gs = doc], "user")
    [] r.pc = "user" ->
         IF fault THEN Throw(d, r) ELSE CompleteUpdateUser(d, r)
    [] r.pc = "usave" ->
         IF fault \/ ~UserValid(r.usr) THEN Throw(d, r)
         ELSE Goto([d EXCEPT !.users[r.user] = UserWrite(@, r.usr0, r.usr)],
                   [r EXCEPT !.usr0 = r.usr], "achieve")
    [] r.pc = "achieve" ->
         LET as == NewAchievements(r.usr, r.gs)
             u == AddAchievements(r.usr, as)
         IN IF as = <<>> THEN Respond(d, r, 200)
            ELSE IF fault \/ ~UserValid(u) THEN Throw(d, r)
            ELSE Respond([d EXCEPT !.users[r.user] = UserWrite(@, r.usr0, u)],
                         [r EXCEPT !.usr = u, !.achievements = as], 200)

(***************************************************************************)
(* POST /api/family/create                                                 *)
(***************************************************************************)
\* the next await of the loop over the body's children, or the create
CreateNextChild(d, r, i) ==
  IF i <= Len(r.children) THEN Goto(d, [r EXCEPT !.i = i], "childUser")
  ELSE Goto(d, r, "create")

CreateStep(d, r, fault) ==
  IF fault THEN Throw(d, r)
  ELSE CASE r.pc = "find" ->
         IF FindFamilyByParent(d, r.user) # 0 THEN Respond(d, r, 400)
         ELSE CreateNextChild(d, r, 1)
    [] r.pc = "childUser" ->
         LET id == r.children[r.i].childId IN
         IF id \notin UserIds \/ ~d.users[id].exists THEN Respond(d, r, 404)
         ELSE Goto(d, r, "childFamily")
    [] r.pc = "childFamily" ->
         IF FindFamilyByChild(d, r.children[r.i].childId) # 0
           THEN Respond(d, r, 400)
           ELSE CreateNextChild(d, r, r.i + 1)
    [] r.pc = "create" ->
         LET family == [parent |-> r.user, children |-> CastChildren(r.children)]
         IN Goto([d EXCEPT !.families = Append(@, family)],
                 [r EXCEPT !.famId = Len(d.families) + 1, !.fam = family],
                 "update")
    [] r.pc = "update" ->
         Respond([d EXCEPT !.users[r.user] =
                    IF @.exists THEN [@ EXCEPT !.persona = "parent", !.isParent = TRUE]
                    ELSE @],
                 r, 201)

(***************************************************************************)
(* POST /api/family/children                                               *)
(***************************************************************************)
ChildrenStep(d, r, fault) ==
  IF fault THEN Throw(d, r)
  ELSE CASE r.pc = "find" ->
         LET id == FindFamilyByParent(d, r.user) IN
         IF id = 0 THEN Respond(d, r, 403)
         ELSE Goto(d, [r EXCEPT !.famId = id, !.fam0 = d.families[id],
                                !.fam = d.families[id]], "childUser")
    [] r.pc = "childUser" ->
         IF r.childId \notin UserIds \/ ~d.users[r.childId].exists
           THEN Respond(d, r, 404)
           ELSE Goto(d, r, "childFamily")
    [] r.pc = "childFamily" ->
         IF FindFamilyByChild(d, r.childId) # 0 THEN Respond(d, r, 400)
         ELSE IF addChildThrows(r.fam) THEN Throw(d, r)
         ELSE Goto(d, [r EXCEPT !.fam = addChild(@, r.childId, r.relationship)],
                   "save")
    [] r.pc = "save" ->
         IF ~FamilyValid(r.fam) THEN Throw(d, r)
         ELSE Goto([d EXCEPT !.families[r.famId] = FamilyWrite(@, r.fam0, r.fam)],
                   r, "update")
    [] r.pc = "update" ->
         Goto([d EXCEPT !.users[r.childId] =
                 IF @.exists THEN [@ EXCEPT !.familyParent = r.user, !.persona = "child"]
                 ELSE @],
              r, "reload")
    [] r.pc = "reload" ->
         Respond(d, [r EXCEPT !.fam = d.families[r.famId]], 200)

(***************************************************************************)
(* DELETE /api/family/children/:childId                                    *)
(***************************************************************************)
\* familySchema.methods.removeChild up to its save(): child.child.toString()
\* throws on an entry that holds no child
removeChildThrows(family) ==
  \E j \in 1..Len(family.children) : family.children[j].child = 0

removeChild(family, childId) ==
  [family EXCEPT !.children = SelectSeq(@, LAMBDA c : c.child # childId)]

RemoveChildStep(d, r, fault) ==
  IF fault THEN Throw(d, r)
  ELSE CASE r.pc = "find" ->
         LET id == FindFamilyByParent(d, r.user) IN
         IF id = 0 THEN Respond(d, r, 403)
         ELSE IF removeChildThrows(d.families[id]) THEN Throw(d, r)
         ELSE Goto(d, [r EXCEPT !.famId = id, !.fam = removeChild(d.families[id], r.childId)],
                   "save")
    [] r.pc = "save" ->
         Goto([d EXCEPT !.families[r.famId].children = r.fam.children], r, "update")
    [] r.pc = "update" ->
         Respond([d EXCEPT !.users[r.childId] =
                    IF @.exists THEN [@ EXCEPT !.familyParent = 0, !.persona = "individual"]
                    ELSE @],
                 r, 200)

(***************************************************************************)
(* POST /api/auth/register                                                 *)
(***************************************************************************)
\* User.findOne({email})
FindUserByEmail(d, email) ==
  LET found == {u \in UserIds : d.users[u].exists /\ d.users[u].email = email}
  IN IF found = {} THEN 0 ELSE CHOOSE u \in found : \A v \in found : u <= v

\* a register handler over a collection whose email index is not unique
RegisterWithoutIndex(d, r, fault) ==
  IF fault THEN Throw(d, r)
  ELSE CASE r.pc = "find" ->
         IF FindUserByEmail(d, r.email) # 0
           THEN RespondError(d, r, 400, "USER_EXISTS")
         ELSE Goto(d, r, "create")
    [] r.pc = "create" ->
         createSendToken([d EXCEPT !.users[d.nextId] =
                                     [NewUser(r.email, r.persona)
                                        EXCEPT !.password = Hash(r.password)],
                                   !.nextId = @ + 1],
                         [r EXCEPT !.user = d.nextId], d.nextId, 201)

RegisterStep(d, r, fault) ==
  IF fault THEN Throw(d, r)
  ELSE CASE r.pc = "find" ->
         IF FindUserByEmail(d, r.email) # 0
           THEN RespondError(d, r, 400, "USER_EXISTS")
         ELSE Goto(d, r, "create")
    [] r.pc = "create" ->
         \* the unique index on email rejects a duplicate
         IF FindUserByEmail(d, r.email) # 0 THEN Throw(d, r)
         ELSE createSendToken([d EXCEPT !.users[d.nextId] =
                                          [NewUser(r.email, r.persona)
                                             EXCEPT !.password = Hash(r.password)],
                                        !.nextId = @ + 1],
                              [r EXCEPT !.user = d.nextId], d.nextId, 201)

(***************************************************************************)
(* POST /api/auth/login                                                    *)
(***************************************************************************)
correctPassword(candidatePassword, userPassword) ==
  userPassword = Hash(candidatePassword)

LoginStep(d, r, fault) ==
  IF r.pc = "find" /\ (r.email = "" \/ r.password = "") THEN Respond(d, r, 400)
  ELSE IF fault THEN Throw(d, r)
  ELSE LET user == FindUserByEmail(d, r.email)
       IN CASE r.pc = "find" ->
                 IF user = 0 THEN Respond(d, r, 401)
                 ELSE Goto(d, [r EXCEPT !.user = user, !.usr = d.users[user]],
                           "compare")
            [] r.pc = "compare" ->
                 IF ~correctPassword(r.password, r.usr.password)
                   THEN Respond(d, r, 401)
                 ELSE Goto(d, r, "save")
            [] r.pc = "save" ->
                 \* user.save() of a document that is gone fails
                 IF ~d.users[r.user].exists THEN Throw(d, r)
                 ELSE createSendToken(d, r, r.user, 200)

(***************************************************************************)
(* PUT /api/auth/change-password                                           *)
(***************************************************************************)
ChangePasswordReq(user, currentPassword, newPassword, now) ==
  [NoReq EXCEPT !.route = "change-password", !.user = user, !.pc = "find",
                !.password = currentPassword, !.newPassword = newPassword,
                !.now = now]

\* userSchema.password: minlength 8
PasswordValid(password) == password \notin {"", "short"}

ChangePasswordStep(d, r, fault) ==
  IF r.pc = "find" /\ (r.password = "" \/ r.newPassword = "") THEN Respond(d, r, 400)
  ELSE IF fault THEN Throw(d, r)
  ELSE CASE r.pc = "find" ->
              \* findById of a user who is gone gives null, and
              \* user.correctPassword is then a TypeError
              IF ~d.users[r.user].exists THEN Throw(d, r)
              ELSE Goto(d, [r EXCEPT !.usr = d.users[r.user]], "compare")
         [] r.pc = "compare" ->
              IF ~correctPassword(r.password, r.usr.password)
                THEN Respond(d, r, 401)
              ELSE Goto(d, r, "save")
         [] r.pc = "save" ->
              IF ~d.users[r.user].exists \/ ~PasswordValid(r.newPassword)
                THEN Throw(d, r)
              ELSE createSendToken([d EXCEPT !.users[r.user].password =
                                               Hash(r.newPassword)],
                                   r, r.user, 200)

(***************************************************************************)
(* DELETE /api/auth/account                                                *)
(***************************************************************************)
AccountStep(d, r, fault) ==
  IF fault THEN Throw(d, r)
  ELSE Respond([d EXCEPT !.users[r.user] = NoUser], r, 200)

(***************************************************************************)
(* The Threat collection and POST /api/threats/report, /analyze            *)
(***************************************************************************)
ThreatEnum == {"phishing", "malware", "social_engineering", "privacy_violation",
               "financial_scam", "predator_behavior", "inappropriate_content",
               "data_breach"}
Severities == {"low", "medium", "high", "critical"}
Sources == {"email", "website", "social_media", "message", "app", "other"}
ActionsTaken == {"blocked", "warned", "reported", "ignored"}
ConfidenceMax == 100

\* the schema's validators, run by Threat.create; confidence is a fraction
ThreatValid(t) ==
  /\ t.type \in ThreatEnum
  /\ t.severity \in Severities
  /\ t.source \in Sources
  /\ t.source \in {"website", "social_media"} => t.url
  /\ t.user # 0
  /\ t.actionTaken \in ActionsTaken
  /\ FracGe(t.confidence, 0, 1)
  /\ ~FracGt(t.confidence, ConfidenceMax, 1)

\* Math.max of the reporter's confidence and the classifier's, in percent
MaxConfidence(confidence, aiConfidence) ==
  IF FracGe(Frac(100 * aiConfidence.n, aiConfidence.d), confidence, 1)
  THEN Frac(100 * aiConfidence.n, aiConfidence.d) ELSE Frac(confidence, 1)

\* the handler goes on to pc with the classifier's answer out
Analysed(d, r, out, pc) ==
  Goto([d EXCEPT !.engine = out.engine], [r EXCEPT !.analysis = out.analysis], pc)

\* the document Threat.create stores: the schema's defaults for the fields
\* the handlers leave out; resolvedAt 0 is no date
StoredThreat(t) ==
  [type |-> t.type, severity |-> t.severity, source |-> t.source, url |-> t.url,
   user |-> t.user, confidence |-> t.confidence, actionTaken |-> t.actionTaken,
   isFalsePositive |-> FALSE, resolved |-> FALSE, resolvedAt |-> 0]

\* Threat.create(threat), then the handler goes on to pc
CreateThreat(d, r, threat, pc) ==
  IF ~ThreatValid(threat) THEN Throw(d, r)
  ELSE Goto([d EXCEPT !.threats = Append(@, StoredThreat(threat))], r, pc)

ReportStep(d, r, fault) ==
  IF fault THEN Throw(d, r)
  ELSE CASE r.pc = "analyze" ->
         Analysed(d, r, analyzeContent(d.engine, r.content, NoContext), "create")
    [] r.pc = "create" ->
         CreateThreat(d, r,
                      [type |-> r.type, severity |-> r.analysis.riskLevel,
                       source |-> r.source, url |-> r.url, user |-> r.user,
                       confidence |-> MaxConfidence(r.confidence,
                                                    r.analysis.confidence),
                       actionTaken |-> "blocked"],
                      "update")
    [] r.pc = "update" -> Respond(d, r, 201)

\* a threat record is created for a high or critical risk only
AnalyzeBranch(s) ==
  IF s.r.analysis.riskLevel \in {"high", "critical"} THEN s
  ELSE Respond(s.db, s.r, 200)

AnalyzeStep(d, r, fault) ==
  IF r.pc = "analyze" /\ r.content.length = 0 THEN Respond(d, r, 400)
  ELSE IF fault THEN Throw(d, r)
  ELSE CASE r.pc = "analyze" ->
         AnalyzeBranch(Analysed(d, r, analyzeContent(d.engine, r.content, r.context),
                                "create"))
    [] r.pc = "create" ->
         CreateThreat(d, r,
                      [type |-> IF Len(r.analysis.threats) > 0
                                THEN r.analysis.threats[1].type
                                ELSE "social_engineering",
                       severity |-> r.analysis.riskLevel,
                       source |-> IF r.context.source # "" THEN r.context.source
                                  ELSE "unknown",
                       url |-> FALSE, user |-> r.user,
                       confidence |-> Frac(100 * r.analysis.confidence.n,
                                           r.analysis.confidence.d),
                       actionTaken |-> "warned"],
                      "respond")
    [] r.pc = "respond" -> Respond(d, r, 200)

(***************************************************************************)
(* PUT /api/threats/:threatId and GET /api/threats/history                 *)
(***************************************************************************)
\* Threat.findOne({_id: threatId, user}): the threat's id, 0 when none
FindThreat(d, threatId, user) ==
  IF threatId \in 1..Len(d.threats) /\ d.threats[threatId].user = user
  THEN threatId ELSE 0

\* findByIdAndUpdate(threatId, updates): the fields the body holds
ApplyUpdates(t, r) ==
  [t EXCEPT !.actionTaken = IF r.actionTaken # "" THEN r.actionTaken ELSE @,
            !.resolved = IF r.resolved # "none" THEN r.resolved = "true" ELSE @,
            !.resolvedAt = IF r.resolved = "none" THEN @
                           ELSE IF r.resolved = "true" THEN r.now ELSE 0,
            !.isFalsePositive = IF r.isFalsePositive # "none"
                                THEN r.isFalsePositive = "true" ELSE @]

\* an update handler whose findOne carries no user
UpdateThreatOfAnyone(d, r, fault) ==
  IF fault THEN Throw(d, r)
  ELSE IF r.pc = "find" THEN
    IF r.threatId \notin 1..Len(d.threats) THEN Respond(d, r, 404)
    ELSE Goto(d, r, "update")
  ELSE \* "update"
    IF r.threatId \notin 1..Len(d.threats)
      THEN Respond(d, r, 200)
    ELSE IF r.actionTaken \notin ActionsTaken \cup {""}
      THEN Throw(d, r)
    ELSE Respond([d EXCEPT !.threats[r.threatId] = ApplyUpdates(@, r)], r, 200)

UpdateThreatStep(d, r, fault) ==
  IF fault THEN Throw(d, r)
  ELSE IF r.pc = "find" THEN
    IF FindThreat(d, r.threatId, r.user) = 0 THEN Respond(d, r, 404)
    ELSE Goto(d, r, "update")
  ELSE \* "update": runValidators checks the enum of actionTaken
    IF r.threatId \notin 1..Len(d.threats)
      THEN Respond(d, r, 200)
    ELSE IF r.actionTaken \notin ActionsTaken \cup {""}
      THEN Throw(d, r)
    ELSE Respond([d EXCEPT !.threats[r.threatId] = ApplyUpdates(@, r)], r, 200)

\* the ids of the threats that pass the filter, newest first
RECURSIVE FilterThreats(_, _, _)
FilterThreats(d, r, n) ==
  IF n = 0 THEN <<>>
  ELSE LET t == d.threats[n]
           rest == FilterThreats(d, r, n - 1)
       IN IF /\ t.user = r.user
             /\ r.resolved # "none" => t.resolved = (r.resolved = "true")
          THEN <<n>> \o rest ELSE rest

\* .limit(limit).skip((page - 1) * limit)
PageOf(ids, page, limit) ==
  LET from == (page - 1) * limit + 1
      to == IF page * limit < Len(ids) THEN page * limit ELSE Len(ids)
  IN IF from > to THEN <<>> ELSE SubSeq(ids, from, to)

HistoryStep(d, r, fault) ==
  IF fault THEN Throw(d, r)
  ELSE IF r.pc = "find" THEN
    Goto(d, [r EXCEPT !.threats =
                        PageOf(FilterThreats(d, r, Len(d.threats)), r.page, r.limit)],
         "count")
  ELSE \* "count"
    Respond(d, r, 200)

(***************************************************************************)
(* Handlers run to their response.                                         *)
(***************************************************************************)
ProtectedRoutes == {"start", "answer", "complete", "create", "children",
                    "account", "report", "analyze", "change-password",
                    "update-threat", "history", "remove-child"}

\* a protected handler reads req.user.id first: a TypeError without req.user
Step(d, r, fault) ==
  CASE r.route \in ProtectedRoutes /\ r.user = 0 -> Throw(d, r)
    [] r.route = "start" -> StartStep(d, r, fault)
    [] r.route = "answer" -> AnswerStep(d, r, fault)
    [] r.route = "complete" -> CompleteStep(d, r, fault)
    [] r.route = "create" -> CreateStep(d, r, fault)
    [] r.route = "children" -> ChildrenStep(d, r, fault)
    [] r.route = "register" -> RegisterStep(d, r, fault)
    [] r.route = "login" -> LoginStep(d, r, fault)
    [] r.route = "account" -> AccountStep(d, r, fault)
    [] r.route = "change-password" -> ChangePasswordStep(d, r, fault)
    [] r.route = "report" -> ReportStep(d, r, fault)
    [] r.route = "analyze" -> AnalyzeStep(d, r, fault)
    [] r.route = "update-threat" -> UpdateThreatStep(d, r, fault)
    [] r.route = "history" -> HistoryStep(d, r, fault)
    [] r.route = "remove-child" -> RemoveChildStep(d, r, fault)

\* the request run to its response; the k-th step's awaited call rejects
RECURSIVE Run(_, _, _)
RunFrom(s, k) == Run(s.db, s.r, k)

Run(d, r, k) ==
  IF r.pc = "done" THEN [db |-> d, r |-> r]
  ELSE RunFrom(Step(d, [r EXCEPT !.faulted = @ \/ k = 1], k = 1),
               IF k > 0 THEN k - 1 ELSE 0)

(***************************************************************************)
(* middleware/auth.js: protect                                             *)
(***************************************************************************)
ExtractToken(headers) ==
  IF headers.authorization.scheme = "Bearer" THEN headers.authorization.token
  ELSE IF headers.xtoken.present THEN headers.xtoken
  ELSE NoToken

\* jwt.verify(token, JWT_SECRET) throws
VerifyThrows(token) == ~token.signed \/ token.expired

Unauthorized == [NoAuth EXCEPT !.status = 401]

\* protect with optionalAuth's catch block: next() whatever was thrown
protectLenient(d, headers, fault) ==
  LET token == ExtractToken(headers)
  IN IF ~token.present THEN Unauthorized
     ELSE IF VerifyThrows(token) \/ fault THEN [NoAuth EXCEPT !.nexts = 1]
     ELSE IF ~d.users[token.id].exists THEN Unauthorized
     ELSE [NoAuth EXCEPT !.nexts = 1, !.user = token.id]

\* fault: User.findById rejects
protect(d, headers, fault) ==
  LET token == ExtractToken(headers)
  IN IF ~token.present THEN Unauthorized
     ELSE IF VerifyThrows(token) \/ fault THEN Unauthorized
     ELSE IF ~d.users[token.id].exists THEN Unauthorized
     \* user.changedPasswordAfter is not a function: the inner catch answers
     ELSE IF "changedPasswordAfter" \notin UserMethods THEN Unauthorized
     ELSE [NoAuth EXCEPT !.nexts = 1, !.user = token.id]

(***************************************************************************)
(* middleware/validation.js.  A rule set gives the fields that fail.       *)
(***************************************************************************)
WellFormedEmails == {"a@x.io", "A@x.io", "b@x.io", "c@x.io"}
isEmail(s) == s \in WellFormedEmails
normalizeEmail(s) == IF s = "A@x.io" THEN "a@x.io" ELSE s

\* at least 8 characters, with a lower-case letter, an upper-case one, a digit
StrongPasswords == {StrongPassword, "N3wPassw0rd"}

Personas == {"individual", "parent", "enterprise", "child"}

validateUserRegistration(r) ==
  {f \in {"email", "password", "firstName", "lastName", "age", "persona"} :
     CASE f = "email" -> ~isEmail(r.email)
       [] f = "password" -> r.password \notin StrongPasswords
       [] f = "firstName" -> r.firstName = ""
       [] f = "lastName" -> r.lastName = ""
       [] f = "age" -> ~(6 <= r.age /\ r.age <= 120)
       [] f = "persona" -> r.persona \notin Personas}

validateUserLogin(r) ==
  {f \in {"email", "password"} :
     CASE f = "email" -> ~isEmail(r.email)
       [] f = "password" -> r.password = ""}

validateGameSession(r) ==
  {f \in {"gameType", "difficulty", "score"} :
     CASE f = "gameType" -> r.gameType \notin GameTypes
       [] f = "difficulty" -> r.difficulty \notin Difficulties
       [] f = "score" -> r.score.given /\ ~(0 <= r.score.value /\ r.score.value <= 1000)}

validateThreatReport(r) ==
  {f \in {"type", "severity", "source", "detectedContent", "indicators",
          "indicators.*"} :
     CASE f = "type" -> r.type \notin ThreatEnum
       [] f = "severity" -> r.severity \notin Severities
       [] f = "source" -> r.source \notin Sources
       [] f = "detectedContent" -> ~(1 <= r.content.length /\ r.content.length <= 5000)
       [] f = "indicators" -> Len(r.indicators) < 1
       [] f = "indicators.*" ->
            \E i \in 1..Len(r.indicators) :
              ~(1 <= r.indicators[i] /\ r.indicators[i] <= 200)}

validateFamilyCreation(r) ==
  {f \in {"familyName", "children"} :
     CASE f = "familyName" -> ~(1 <= r.familyName /\ r.familyName <= 100)
       [] f = "children" -> ~r.childrenIsArray}

ValidatedRoutes == {"register", "login", "start", "report", "create"}

ValidationErrors(r) ==
  CASE r.route = "register" -> validateUserRegistration(r)
    [] r.route = "login" -> validateUserLogin(r)
    [] r.route = "start" -> validateGameSession(r)
    [] r.route = "report" -> validateThreatReport(r)
    [] r.route = "create" -> validateFamilyCreation(r)
    [] OTHER -> {}

\* the sanitizers of the rule sets: normalizeEmail on register and login
Sanitize(r) ==
  IF r.route \in {"register", "login"} /\ isEmail(r.email)
  THEN [r EXCEPT !.email = normalizeEmail(@)] ELSE r

\* a handleValidationErrors that calls next() whatever the errors
handleValidationErrorsLenient(errors) == 0

\* the status handleValidationErrors sends, 0 when it calls next()
handleValidationErrors(errors) == IF errors # {} THEN 400 ELSE 0

\* the rule set and the handler, for a request that protect let through or
\* that needed no token; k: the handler's k-th awaited call rejects
Validated(d, r, k) ==
  IF handleValidationErrors(ValidationErrors(r)) # 0
  THEN Respond(d, [r EXCEPT !.errors = ValidationErrors(r)],
               handleValidationErrors(ValidationErrors(r)))
  ELSE Run(d, [Sanitize(r) EXCEPT !.ran = TRUE], k)

\* protect has answered or called next(), as auth tells
Protected(d, r, auth, k) ==
  IF auth.status # 0 THEN Respond(d, [r EXCEPT !.auth = auth], auth.status)
  ELSE IF auth.nexts = 0 THEN [db |-> d, r |-> [r EXCEPT !.auth = auth, !.pc = "done"]]
  ELSE Validated(d, [r EXCEPT !.auth = auth, !.user = auth.user], k)

\* a request through its route's chain: protect, the rule set, the handler.
\* The k-th awaited call of the chain rejects: on a protected route the first
\* is protect's findById.
Pipeline(d, r, k) ==
  IF r.route \in ProtectedRoutes
  THEN Protected(d, [r EXCEPT !.piped = TRUE, !.bodyErrors = ValidationErrors(r),
                              !.faulted = (k = 1)],
                 protect(d, r.headers, k = 1), IF k > 0 THEN k - 1 ELSE 0)
  ELSE Validated(d, [r EXCEPT !.piped = TRUE, !.bodyErrors = ValidationErrors(r)], k)

\* what is kept of a served request: its inputs, its response and the
\* documents it last held, without the copies it loaded
Outcome(r) ==
  [r EXCEPT !.gs0 = NoSession, !.usr0 = NoUser, !.usr = NoUser,
            !.fam0 = NoFamily, !.fam = NoFamily, !.i = 0,
            !.known = FALSE, !.isCorrect = FALSE, !.elapsed = 0,
            !.children = <<>>, !.persona = "individual",
            !.password = StrongPassword, !.firstName = "Al", !.lastName = "Smith",
            !.age = 30, !.score = NoReq.score, !.familyName = 10,
            !.childrenIsArray = TRUE, !.indicators = <<10>>,
            !.newPassword = "", !.actionTaken = "", !.resolved = "none",
            !.isFalsePositive = "none", !.page = 1, !.limit = 20]

\* the response is out: the stored state and the served request are out's
Served(out) ==
  /\ db' = out.db
  /\ last' = Outcome(out.r)
  /\ UNCHANGED <<scene, probe, inflight, changedAt>>

\* the request served with the rejecting step drawn from faults
ServeWith(r, faults) == \E k \in faults : Served(Run(db, r, k))

Serve(r) == ServeWith(r, 0..MaxFaultStep)

Existing(d) == {u \in UserIds : d.users[u].exists}

\* seconds between a session's start and its completion
Elapsed == {0, 59, 301, 400}

\* the game types GAME_QUESTIONS holds questions for
QuestionTypes == {"scam_spotter", "threat_hunter"}

PlayAnswer ==
  \E u \in Existing(db), id \in 1..Len(db.sessions), known, isCorrect \in BOOLEAN :
    /\ db.sessions[id].totalQuestions < MaxAnswers
    /\ ServeWith(AnswerReq(u, id, known, isCorrect), {0})

PlayComplete ==
  \E u \in Existing(db), id \in 1..Len(db.sessions), elapsed \in Elapsed :
    ServeWith(CompleteReq(u, id, elapsed), {0})

(***************************************************************************)
(* Spec: the handlers, each run to its response with req.user an existing  *)
(* user (what protect is written to hand on, auth.js:44-45), any one       *)
(* awaited call possibly rejecting.  A behaviour exercises one scene:      *)
(* accounts, starting sessions, playing a started session, the family      *)
(* routes, or the threat routes.                                           *)
(***************************************************************************)
\* sessions, families, children per family and answers per session in Spec
MaxSessions == 1
MaxFamilies == 1
MaxChildren == 2
AnswerCap == 1

Emails == {"a@x.io", "c@x.io"}

\* the children lists a create request carries: none, or one entry naming a
\* user by childId
ChildrenLists ==
  {<<>>} \cup {<<[childId |-> c, child |-> 0]>> : c \in UserIds}

\* the entries of a children list that name a user by childId, which the
\* handler checks, and by child, which the schema stores
ChildEntries == {[childId |-> c, child |-> c] : c \in UserIds}

\* the children lists of the scene of households: also lists of one or two
\* entries that name the child in both fields
ChildrenListsOf(sc) ==
  IF sc = "household"
  THEN ChildrenLists \cup {<<e>> : e \in ChildEntries}
                     \cup {<<e, f>> : e \in ChildEntries, f \in ChildEntries}
  ELSE ChildrenLists

\* URLs per content
MaxUrls == 9

RECURSIVE Rep(_, _)
Rep(x, n) == IF n = 0 THEN <<>> ELSE Append(Rep(x, n - 1), x)

\* a content that includes the first k keywords of a type, matches the
\* patterns those keywords hold and the first p patterns, links u times to a
\* listed domain and shares a term with the training documents in terms
Content(type, k, p, u, terms) ==
  [NoContent EXCEPT
     !.keywords[type] = 1..k,
     !.patterns[type] = ({KeywordPattern[type][i] : i \in 1..k} \ {0}) \cup 1..p,
     !.urls = Rep("paypal-security.com", u),
     !.terms = terms]

\* stored threats per behaviour
MaxThreats == 1

\* a harmless text, links to a listed domain, and a text full of malware
\* keywords that shares terms with the training documents
SampleContents ==
  {NoContent, Content("phishing", 0, 0, MaxUrls - 3, {}),
   Content("phishing", 0, 0, MaxUrls, {}), Content("malware", 9, 4, 0, {3})}

\* the threat routes alone are exercised with every sample, the whole API
\* with the harmless text and the one whose links pass the classifier's range
ContentsOf(sc) ==
  IF sc = "classifier" THEN SampleContents
  ELSE {NoContent, Content("phishing", 0, 0, MaxUrls, {})}

ConfidencesOf(sc) == IF sc = "classifier" THEN {0, 50, 150} ELSE {50}

ReportThreat ==
  \E u \in Existing(db), content \in ContentsOf(scene), confidence \in ConfidencesOf(scene),
     su \in {<<"email", FALSE>>, <<"website", FALSE>>, <<"website", TRUE>>} :
    /\ scene \in {"threats", "classifier"}
    /\ Len(db.threats) < MaxThreats
    /\ Serve(ReportReq(u, "phishing", "low", su[1], su[2], content, confidence))

AnalyzeText ==
  \E u \in Existing(db), context \in Contexts,
     content \in ContentsOf(scene) \cup {[NoContent EXCEPT !.length = 0]} :
    /\ scene \in {"threats", "classifier"}
    /\ Len(db.threats) < MaxThreats
    /\ Serve(AnalyzeReq(u, content, context))

Login ==
  \E email \in {"a@x.io", "c@x.io"}, password \in {StrongPassword, "short"} :
    /\ scene = "auth"
    /\ Serve(LoginReq(email, password))

\* the account handler, run for the user protect is written to hand on
DeleteAccount ==
  \E u \in Existing(db) :
    /\ scene \in {"auth", "router", "household"}
    /\ Serve(AccountReq(u))

Register ==
  \E email \in Emails, persona \in {"individual", "parent"} :
    /\ scene = "auth"
    /\ db.nextId \in UserIds
    /\ Serve(RegisterReq(email, persona))

StartGame ==
  \E u \in Existing(db), gameType \in QuestionTypes, difficulty \in {"easy", "expert"} :
    /\ scene = "start"
    /\ Len(db.sessions) < MaxSessions
    /\ Serve(StartReq(u, gameType, difficulty))

SubmitAnswer ==
  \E u \in Existing(db), id \in 1..Len(db.sessions), known, isCorrect \in BOOLEAN :
    /\ scene = "games"
    /\ db.sessions[id].totalQuestions < AnswerCap
    /\ Serve(AnswerReq(u, id, known, isCorrect))

CompleteGame ==
  \E u \in Existing(db), id \in 1..Len(db.sessions), elapsed \in {59, 301} :
    /\ scene = "games"
    /\ Serve(CompleteReq(u, id, elapsed))

CreateFamily ==
  \E u \in Existing(db), children \in ChildrenListsOf(scene) :
    /\ scene \in {"family", "household"}
    /\ Len(db.families) < MaxFamilies
    /\ Serve(CreateReq(u, children))

AddChild ==
  \E u \in Existing(db), childId \in UserIds, relationship \in {"", "friend"} :
    /\ scene \in {"family", "household"}
    /\ \A j \in 1..Len(db.families) : Len(db.families[j].children) < MaxChildren
    /\ Serve(ChildrenReq(u, childId, relationship))

\* users 1 and 2 registered, user 3 not yet
InitDb ==
  [EmptyDb EXCEPT !.users[1] = NewUser("a@x.io", "individual"),
                  !.users[2] = NewUser("b@x.io", "individual"),
                  !.nextId = 3]

\* in the scene of the answer and complete routes user 1 has started a session
Init ==
  /\ scene \in {"auth", "start", "games", "family", "threats"}
  /\ \E gameType \in QuestionTypes, difficulty \in {"easy", "expert"} :
       db = IF scene = "games"
            THEN [InitDb EXCEPT !.sessions = <<NewSession(1, gameType, difficulty)>>]
            ELSE InitDb
  /\ last = NoReq
  /\ probe = NoProbe
  /\ inflight = NoFlight
  /\ changedAt = NeverChanged

Next ==
  \/ Register
  \/ StartGame
  \/ SubmitAnswer
  \/ CompleteGame
  \/ CreateFamily
  \/ AddChild
  \/ Login
  \/ DeleteAccount
  \/ ReportThreat
  \/ AnalyzeText

Spec == Init /\ [][Next]_vars

\* C7: a handled request gets exactly one response, and that response is a
\* 500 whenever a step of the handler threw
C7_OneResponseAnd500OnThrow ==
  last.route # "none" =>
    /\ last.sent = 1
    /\ last.threw => last.status = 500

\* C7 witness: an awaited call of a handler rejected and the request got its
\* one response, a 500
C7_Witness ==
  /\ last.route \in {"complete", "register", "children"}
  /\ last.faulted /\ last.threw /\ last.sent = 1 /\ last.status = 500

\* C3: a parent's POST /children naming an existing user who is in no family
\* responds 200 and leaves that user once in the family's children, as a
\* 'child' whose family.parent is the caller, whatever the family held before
C3_AddChildSucceeds ==
  [][(/\ last'.route = "children"
      /\ ~last'.faulted
      /\ last'.relationship \in Relationships \cup {""}
      /\ FindFamilyByParent(db, last'.user) # 0
      /\ last'.childId \in Existing(db)
      /\ FindFamilyByChild(db, last'.childId) = 0)
     => (/\ last'.status = 200
         /\ LET family == db'.families[FindFamilyByParent(db, last'.user)]
            IN Cardinality({j \in 1..Len(family.children) :
                              family.children[j].child = last'.childId}) = 1
         /\ db'.users[last'.childId].persona = "child"
         /\ db'.users[last'.childId].familyParent = last'.user)]_vars

\* the request just served was an answer or a completion on a session that
\* was already completed
OnCompleted ==
  /\ last'.route \in {"answer", "complete"}
  /\ last'.sessionId \in 1..Len(db.sessions)
  /\ db.sessions[last'.sessionId].completed

\* C13 as stated: every answer or completion on a completed session is
\* answered 400 and leaves the session and the user as they were
C13_CompletedStaysCompleted ==
  [][OnCompleted => (last'.status = 400 /\ db' = db)]_vars

\* C13 amended: an answer or a completion on a completed session leaves the
\* session completed and the session and the user as they were; it is
\* answered 400 to the session's owner, 404 to another user, and 500 when the
\* lookup of the session fails
C13_CompletedStaysCompletedForOwner ==
  [][OnCompleted
       => (/\ db' = db
           /\ db'.sessions[last'.sessionId].completed
           /\ last'.sent = 1
           /\ last'.status =
                IF last'.faulted THEN 500
                ELSE IF last'.user = db.sessions[last'.sessionId].user THEN 400
                ELSE 404)]_vars

\* C13 witness: the owner answered a question of a completed session and
\* got 400
C13_Witness ==
  /\ last.route = "answer" /\ last.status = 400
  /\ last.sessionId \in 1..Len(db.sessions)
  /\ db.sessions[last.sessionId].completed
  /\ db.sessions[last.sessionId].user = last.user

(***************************************************************************)
(* SpecGame: one session of a game type that has questions, of any         *)
(* difficulty, answered and completed by its owner or another user, no     *)
(* awaited call rejecting.                                                 *)
(***************************************************************************)
InitGame ==
  /\ \E gameType \in QuestionTypes, difficulty \in Difficulties :
       db = [EmptyDb EXCEPT !.users[1] = NewUser("a@x.io", "individual"),
                            !.users[2] = NewUser("b@x.io", "individual"),
                            !.nextId = 3,
                            !.sessions = <<NewSession(1, gameType, difficulty)>>]
  /\ last = NoReq
  /\ scene = "games"
  /\ probe = NoProbe
  /\ inflight = NoFlight
  /\ changedAt = NeverChanged

NextGame == PlayAnswer \/ PlayComplete

SpecGame == InitGame /\ [][NextGame]_vars

\* C5: the document an answer or a completion hands to save() has its score
\* within 0..1000 and its accuracy within 0..100, so the save passes the
\* schema's range constraints
C5_ScoreAndAccuracyInRange ==
  (last.route \in {"answer", "complete"} /\ last.gs.user # 0)
    => SessionValid(last.gs)

\* the gameProgress entry that holds a game type's best score
ProgressKeyOf(gameType) ==
  CASE gameType = "scam_spotter" -> "scamSpotter"
    [] gameType = "threat_hunter" -> "threatHunter"
    [] gameType = "firewall_commander" -> "firewallCommander"
    [] gameType = "privacy_guardian" -> "privacyGuardian"
    [] gameType = "crypto_defender" -> "cryptoDefender"
    [] gameType = "social_sentinel" -> "socialSentinel"

\* the experience a user has gathered over all levels
TotalXP(u) == u.experience + 50 * u.level * (u.level - 1)

\* C2: completing a not-yet-completed session of one's own responds 200,
\* marks the session completed, raises the stored best score of the game type
\* when the session's score is higher, adds the XP gained to the experience
\* and recomputes the security score
C2_CompleteUpdatesProgress ==
  [][(/\ last'.route = "complete"
      /\ ~last'.faulted
      /\ FindSession(db, last'.sessionId, last'.user) # 0
      /\ ~db.sessions[last'.sessionId].completed)
     => (LET s == db'.sessions[last'.sessionId]
             u == db.users[last'.user]
             v == db'.users[last'.user]
             k == ProgressKeyOf(s.gameType)
         IN /\ last'.status = 200
            /\ s.completed
            /\ v.gameProgress[k].score = Max(u.gameProgress[k].score, s.score)
            /\ TotalXP(v) = TotalXP(u) + last'.xpGained
                              + 100 * Len(last'.achievements)
            /\ v.securityScore = updateSecurityScore(v).securityScore)]_vars

(***************************************************************************)
(* SpecEngine: analyzeContent called directly, on one content drawn at the *)
(* start and on another, with any context, in any order.                   *)
(***************************************************************************)
\* calls of analyzeContent per behaviour
MaxCalls == 2

Contents ==
  UNION {{Content(type, k, p, u, terms) :
            k \in 0..THREAT_PATTERNS[type].keywords,
            p \in 0..THREAT_PATTERNS[type].patterns,
            u \in 0..MaxUrls, terms \in {{}, {1}}} : type \in TypeSet}


OtherContent == Content("malware", 9, 4, 0, {3, 5})

Analyze ==
  \E content \in {probe.content, OtherContent}, context \in Contexts :
    LET out == analyzeContent(db.engine, content, context)
    IN /\ scene = "engine"
       /\ probe.calls < MaxCalls
       /\ db' = [db EXCEPT !.engine = out.engine]
       /\ probe' = IF content = probe.content
                   THEN [probe EXCEPT !.context = context, !.analysis = out.analysis,
                                      !.analysed = TRUE, !.calls = @ + 1]
                   ELSE [probe EXCEPT !.calls = @ + 1]
       /\ UNCHANGED <<last, scene, inflight, changedAt>>

InitEngine ==
  /\ db = EmptyDb
  /\ last = NoReq
  /\ scene = "engine"
  /\ probe \in {[NoProbe EXCEPT !.content = c] : c \in Contents}
  /\ inflight = NoFlight
  /\ changedAt = NeverChanged

SpecEngine == InitEngine /\ [][Analyze]_vars

BaseSeverityOf ==
  [t \in TypeSet \cup {"undefined"} |->
     CASE t \in {"phishing", "malware"} -> "high"
       [] t \in {"financial_scam", "social_engineering"} -> "medium"
       [] t = "predator_behavior" -> "critical"
       [] OTHER -> "low"]

RaisedOneStep(severity) ==
  CASE severity = "medium" -> "high" [] severity = "high" -> "critical"
    [] OTHER -> severity

\* the product of the denominators of the threats' confidences, and the sum
\* of confidence times weight in units of one over that product
RECURSIVE CommonDenominator(_)
CommonDenominator(threats) ==
  IF threats = <<>> THEN 1
  ELSE Head(threats).confidence.d * CommonDenominator(Tail(threats))

RECURSIVE ScoreTimes(_, _)
ScoreTimes(threats, D) ==
  IF threats = <<>> THEN 0
  ELSE LET t == Head(threats)
           weight == CASE t.severity = "low" -> 1 [] t.severity = "medium" -> 2
                       [] t.severity = "high" -> 3 [] t.severity = "critical" -> 4
       IN (t.confidence.n * weight * D) \div t.confidence.d
            + ScoreTimes(Tail(threats), D)

\* C18: the risk level analyzeContent returns is 'low' for no threats, and
\* otherwise 'critical', 'high', 'medium' or 'low' as the sum of confidence
\* times severity weight (1, 2, 3, 4) is at least 3, at least 2, at least 1
\* or less; each threat's severity is its category's base severity, raised
\* one step exactly when the confidence is above 0.9
C18_RiskLevelAndSeverity ==
  probe.analysed =>
    LET threats == probe.analysis.threats
        D == CommonDenominator(threats)
        score == ScoreTimes(threats, D)
    IN /\ \A i \in 1..Len(threats) :
            /\ threats[i].type \in DOMAIN BaseSeverityOf
            /\ threats[i].severity =
                 IF 10 * threats[i].confidence.n > 9 * threats[i].confidence.d
                 THEN RaisedOneStep(BaseSeverityOf[threats[i].type])
                 ELSE BaseSeverityOf[threats[i].type]
       /\ probe.analysis.riskLevel =
            IF Len(threats) = 0 THEN "low"
            ELSE IF score >= 3 * D THEN "critical"
            ELSE IF score >= 2 * D THEN "high"
            ELSE IF score >= D THEN "medium"
            ELSE "low"

\* C18 witness: an analysis of high risk that holds a threat whose severity
\* was raised by a confidence above 0.9
C18_Witness ==
  /\ probe.analysed
  /\ probe.analysis.riskLevel = "high"
  /\ \E i \in 1..Len(probe.analysis.threats) :
       LET t == probe.analysis.threats[i]
       IN 10 * t.confidence.n > 9 * t.confidence.d /\ t.severity # BaseSeverityOf[t.type]

(***************************************************************************)
(* SpecAuth: requests sent through the routes' middleware chains, with any *)
(* headers and with bodies that pass or fail the rule sets; accounts are   *)
(* deleted by the account handler run for its user.                        *)
(***************************************************************************)
\* the tokens a client can send: none, a forged one, the ones signToken has
\* issued, and an expired one
TokensFor(d) ==
  {NoToken, [signToken(1) EXCEPT !.signed = FALSE],
   [signToken(1) EXCEPT !.expired = TRUE]}
    \cup {signToken(id) : id \in {u \in UserIds : u < d.nextId}}

\* a token as Bearer credentials or in x-truthshield-token, and a valid token
\* in x-truthshield-token beside a Basic or an empty Bearer header
HeadersFor(d) ==
  {[NoHeaders EXCEPT !.authorization = [scheme |-> "Bearer", token |-> t]] :
     t \in TokensFor(d)}
    \cup {[NoHeaders EXCEPT !.xtoken = t] : t \in TokensFor(d)}
    \cup {[authorization |-> [scheme |-> scheme, token |-> NoToken],
           xtoken |-> signToken(1)] : scheme \in {"Basic", "Bearer"}}

ServePiped(r, faults) ==
  \E k \in faults : scene = "router" /\ Served(Pipeline(db, r, k))

PostRegister ==
  \E email \in {"a@x.io", "A@x.io", "c@x.io", "nobody"},
     password \in {StrongPassword, "short"}, age \in {5, 30} :
    /\ db.nextId \in UserIds
    /\ ServePiped([RegisterReq(email, "individual") EXCEPT
                     !.password = password, !.age = age], 0..MaxFaultStep)

PostLogin ==
  \E email \in {"a@x.io", "c@x.io", "nobody"},
     password \in {StrongPassword, "short", ""} :
    /\ db.nextId > 1
    /\ ServePiped(LoginReq(email, password), 0..MaxFaultStep)

PostStart ==
  \E headers \in HeadersFor(db), gameType \in {"scam_spotter", "chess"} :
    ServePiped([StartReq(0, gameType, "easy") EXCEPT !.headers = headers], {0, 1})

PostCreate ==
  \E headers \in HeadersFor(db), familyName \in {0, 10} :
    ServePiped([CreateReq(0, <<>>) EXCEPT
                  !.headers = headers, !.familyName = familyName], {0, 1})

PostReport ==
  \E headers \in HeadersFor(db), indicators \in {<<>>, <<10>>, <<10, 201>>} :
    ServePiped([ReportReq(0, "phishing", "low", "email", FALSE, NoContent, 0) EXCEPT
                  !.headers = headers, !.indicators = indicators], {0, 1})

\* the protected routes without a rule set
Unvalidated ==
  \E headers \in HeadersFor(db),
     r \in {AccountReq(0), ChildrenReq(0, 2, "son"), AnalyzeReq(0, NoContent, NoContext)} :
    ServePiped([r EXCEPT !.headers = headers], {0, 1})

InitAuth ==
  /\ db = InitDb
  /\ last = NoReq
  /\ scene = "router"
  /\ probe = NoProbe
  /\ inflight = NoFlight
  /\ changedAt = NeverChanged

NextAuth ==
  \/ PostRegister
  \/ PostLogin
  \/ PostStart
  \/ PostCreate
  \/ PostReport
  \/ Unvalidated
  \/ DeleteAccount

SpecAuth == InitAuth /\ [][NextAuth]_vars

\* a correctly signed, unexpired token whose id names a stored user
ValidToken(d, token) ==
  /\ token.present /\ token.signed /\ ~token.expired
  /\ d.users[token.id].exists

\* the tokens a request carries, in the Bearer header and in x-truthshield-token
Carried(headers) ==
  {t \in {headers.authorization.token, headers.xtoken} :
     /\ t.present
     /\ t = headers.authorization.token => headers.authorization.scheme = "Bearer"}

\* C1: for a request to a protected route that carries a valid token of an
\* existing user, protect sends nothing, sets req.user to that user and calls
\* next() once
C1_ProtectPassesValidToken ==
  [][(/\ last'.piped /\ last'.route \in ProtectedRoutes
      /\ \E t \in Carried(last'.headers) : ValidToken(db, t))
     => (/\ last'.auth.status = 0
         /\ last'.auth.nexts = 1
         /\ \E t \in Carried(last'.headers) :
              ValidToken(db, t) /\ last'.auth.user = t.id)]_vars

\* the request's token is missing, fails verification or names no stored user
Rejectable(d, headers) ==
  LET token == ExtractToken(headers)
  IN \/ Carried(headers) = {}
     \/ token.present /\ VerifyThrows(token)
     \/ token.present /\ ~VerifyThrows(token) /\ ~d.users[token.id].exists

\* C10: a request to a protected route without a token, with a token that
\* fails verification or with the token of a user who is gone gets a 401, its
\* handler does not run and nothing stored changes
C10_ProtectRejects ==
  [][(/\ last'.piped /\ last'.route \in ProtectedRoutes
      /\ Rejectable(db, last'.headers))
     => (/\ last'.sent = 1 /\ last'.status = 401
         /\ ~last'.ran
         /\ db' = db)]_vars

\* C10 witness: a user deleted the account, and a request with the token
\* issued to that user has been answered 401
C10_Witness ==
  LET token == ExtractToken(last.headers)
  IN /\ last.piped /\ last.route \in ProtectedRoutes
     /\ token.present /\ ~VerifyThrows(token)
     /\ ~db.users[token.id].exists
     /\ last.status = 401 /\ ~last.ran

InitThreat ==
  /\ db = InitDb
  /\ last = NoReq
  /\ scene = "classifier"
  /\ probe = NoProbe
  /\ inflight = NoFlight
  /\ changedAt = NeverChanged

NextThreat == ReportThreat \/ AnalyzeText

SpecThreat == InitThreat /\ [][NextThreat]_vars

\* C6: every stored threat's confidence is within 0..100, and the confidence
\* the classifier returned for the content of a report or an analysis, like
\* that of each threat it found, is within 0..1
C6_ConfidenceInRange ==
  /\ \A i \in 1..Len(db.threats) :
       FracGe(db.threats[i].confidence, 0, 1)
         /\ ~FracGt(db.threats[i].confidence, ConfidenceMax, 1)
  /\ last.route \in {"report", "analyze"} =>
       /\ FracGe(last.analysis.confidence, 0, 1)
       /\ ~FracGt(last.analysis.confidence, 1, 1)
       /\ \A i \in 1..Len(last.analysis.threats) :
            ~FracGt(last.analysis.threats[i].confidence, 1, 1)

\* the stored records, which the classifier's state is not one of
Records(d) == [users |-> d.users, families |-> d.families,
               sessions |-> d.sessions, threats |-> d.threats]

\* C17: an analysis whose calls do not fail stores one new threat of the
\* caller, with the risk level as severity and actionTaken 'warned', when the
\* risk level is high or critical, and otherwise changes no stored record
C17_ThreatIffHighRisk ==
  [][(last'.route = "analyze" /\ ~last'.faulted)
       => IF last'.analysis.riskLevel \in {"high", "critical"}
          THEN /\ Len(db'.threats) = Len(db.threats) + 1
               /\ SubSeq(db'.threats, 1, Len(db.threats)) = db.threats
               /\ db'.threats[Len(db'.threats)].severity = last'.analysis.riskLevel
               /\ db'.threats[Len(db'.threats)].actionTaken = "warned"
               /\ db'.threats[Len(db'.threats)].user = last'.user
          ELSE Records(db') = Records(db)]_vars

\* C17 witness: an analysis of high or critical risk stored its threat
C17_Witness ==
  /\ last.route = "analyze" /\ last.status = 200
  /\ last.analysis.riskLevel \in {"high", "critical"}
  /\ Len(db.threats) > 0
  /\ db.threats[Len(db.threats)].actionTaken = "warned"

\* C19: a request that is answered 500 has created and modified no stored
\* record
C19_NoWriteOn500 ==
  [][(last'.route # "none" /\ last'.status = 500)
       => Records(db') = Records(db)]_vars

\* C19 witness: a completion was answered 500
C19_Witness ==
  /\ last.route = "complete" /\ last.status = 500 /\ last.sent = 1
  /\ last.sessionId \in 1..Len(db.sessions)
  /\ db.sessions[last.sessionId].completed

(***************************************************************************)
(* SpecFamily: households. Families are created with and without children  *)
(* lists and children are added to them.                                   *)
(***************************************************************************)
\* a threat reported by a user
ReportedThreat(user) ==
  StoredThreat([type |-> "phishing", severity |-> "high", source |-> "email",
                url |-> FALSE, user |-> user, confidence |-> Frac(50, 1),
                actionTaken |-> "blocked"])

RemoveChild ==
  \E u \in Existing(db), childId \in UserIds :
    /\ scene = "household"
    /\ Serve(RemoveChildReq(u, childId))

\* users 1 and 2, a started session and a stored threat of user 1
InitFamily ==
  /\ db = [InitDb EXCEPT !.sessions = <<NewSession(1, "scam_spotter", "easy")>>,
                         !.threats = <<ReportedThreat(1)>>]
  /\ last = NoReq
  /\ scene = "household"
  /\ probe = NoProbe
  /\ inflight = NoFlight
  /\ changedAt = NeverChanged

NextFamily == CreateFamily \/ AddChild \/ RemoveChild \/ DeleteAccount

SpecFamily == InitFamily /\ [][NextFamily]_vars

\* the places, family and position, where a user is stored as a child
ChildPlaces(d, user) ==
  {p \in (1..Len(d.families)) \X (1..MaxChildren + 2) :
     /\ p[2] <= Len(d.families[p[1]].children)
     /\ d.families[p[1]].children[p[2]].child = user}

\* C15: each user is stored as a child in at most one family, and at most
\* once in it
C15_ChildInOneFamilyOnce ==
  \A u \in UserIds : Cardinality(ChildPlaces(db, u)) <= 1

\* C15 witness: a create request with a children list was answered 201 and
\* its family holds a child
C15_Witness ==
  /\ last.route = "create" /\ last.status = 201
  /\ last.famId \in 1..Len(db.families)
  /\ \E u \in UserIds : \E p \in ChildPlaces(db, u) : p[1] = last.famId

\* C20: the parent and every child a family holds, and the user of every
\* game session and of every threat, is an existing user
C20_ReferencesExist ==
  /\ \A i \in 1..Len(db.families) :
       /\ db.families[i].parent \in UserIds /\ db.users[db.families[i].parent].exists
       /\ \A j \in 1..Len(db.families[i].children) :
            LET c == db.families[i].children[j].child
            IN c # 0 => (c \in UserIds /\ db.users[c].exists)
  /\ \A i \in 1..Len(db.sessions) :
       db.sessions[i].user \in UserIds /\ db.users[db.sessions[i].user].exists
  /\ \A i \in 1..Len(db.threats) :
       db.threats[i].user \in UserIds /\ db.users[db.threats[i].user].exists

\* C20 witness: a child was removed from a family whose parent and other
\* children exist
C20_Witness ==
  /\ last.route = "remove-child" /\ last.status = 200
  /\ last.famId \in 1..Len(db.families)
  /\ \A j \in 1..Len(db.families[last.famId].children) :
       db.families[last.famId].children[j].child # last.childId
  /\ C20_ReferencesExist

(***************************************************************************)
(* SpecRecords: the records of one user under the requests of another.     *)
(* Either user 1 has started a game session, or users 1 and 2 have a       *)
(* stored threat each; every existing user sends the requests.             *)
(***************************************************************************)
UpdateThreat ==
  \E u \in Existing(db), threatId \in 1..Len(db.threats) + 1,
     actionTaken \in {"", "ignored", "deleted"},
     resolved \in {"none", "true", "false"}, isFalsePositive \in {"none", "true"} :
    /\ scene = "records"
    /\ Serve(UpdateThreatReq(u, threatId, actionTaken, resolved, isFalsePositive, 1))

GetHistory ==
  \E u \in Existing(db), resolved \in {"none", "true", "false"},
     page \in {1, 2}, limit \in {1, 20} :
    /\ scene = "records"
    /\ Serve(HistoryReq(u, resolved, page, limit))

InitRecords ==
  /\ scene \in {"games", "records"}
  /\ \E gameType \in QuestionTypes, difficulty \in {"easy", "expert"} :
       db = IF scene = "games"
            THEN [InitDb EXCEPT !.sessions = <<NewSession(1, gameType, difficulty)>>]
            ELSE [InitDb EXCEPT !.threats = <<ReportedThreat(1), ReportedThreat(2)>>]
  /\ last = NoReq
  /\ probe = NoProbe
  /\ inflight = NoFlight
  /\ changedAt = NeverChanged

NextRecords == SubmitAnswer \/ CompleteGame \/ UpdateThreat \/ GetHistory

SpecRecords == InitRecords /\ [][NextRecords]_vars

\* the request just served was an answer or a completion on the session of
\* another user
OnSessionOfAnother ==
  /\ last'.route \in {"answer", "complete"}
  /\ last'.sessionId \in 1..Len(db.sessions)
  /\ db.sessions[last'.sessionId].user # last'.user

\* the request just served was an update of the threat of another user
OnThreatOfAnother ==
  /\ last'.route = "update-threat"
  /\ last'.threatId \in 1..Len(db.threats)
  /\ db.threats[last'.threatId].user # last'.user

\* C16: an answer or a completion on another user's session and an update of
\* another user's threat leave every stored record as it was and are
\* answered 404, unless the lookup fails; a history that is answered returns
\* threats of the caller only and changes nothing
C16_OthersRecordsUntouched ==
  [][/\ (OnSessionOfAnother \/ OnThreatOfAnother)
          => (/\ db' = db
              /\ last'.sent = 1
              /\ ~last'.faulted => last'.status = 404)
     /\ (last'.route = "history")
          => (/\ db' = db
              /\ \A i \in 1..Len(last'.threats) :
                   /\ last'.threats[i] \in 1..Len(db.threats)
                   /\ db.threats[last'.threats[i]].user = last'.user)]_vars

\* C16 witness: user 2 has been answered 404 on the update of a threat of
\* user 1, after user 1 updated that threat
C16_Witness ==
  /\ last.route = "update-threat" /\ last.status = 404
  /\ last.threatId \in 1..Len(db.threats)
  /\ db.threats[last.threatId].user # last.user
  /\ db.threats[last.threatId].resolved

\* C16 witness of the history: a page of one threat of the caller was
\* returned while another user's threats are stored
C16_HistoryWitness ==
  /\ last.route = "history" /\ last.status = 200
  /\ Len(last.threats) = 1
  /\ \E i \in 1..Len(db.threats) : db.threats[i].user # last.user

(***************************************************************************)
(* SpecConc: two requests whose handlers' steps interleave.                *)
(***************************************************************************)
\* the requests that are sent in pairs
PairRequests(d) ==
  {CreateReq(u, <<>>) : u \in {1, 2}}
    \cup {AnswerReq(1, 1, TRUE, c) : c \in BOOLEAN}
    \cup {CompleteReq(1, 1, 59), ChildrenReq(1, 2, "son")}
    \cup {RegisterReq(email, "individual") : email \in Emails}

\* two requests arrive
Arrive ==
  \E r1, r2 \in PairRequests(db) :
    /\ scene = "concurrent"
    /\ inflight = NoFlight
    /\ inflight' = [base |-> db, sent |-> <<r1, r2>>, reqs |-> <<r1, r2>>]
    /\ UNCHANGED <<db, last, scene, probe, changedAt>>

\* the handler of one of them runs up to its next awaited call
Proceed ==
  \E i \in 1..Len(inflight.reqs) :
    LET s == Step(db, inflight.reqs[i], FALSE)
    IN /\ scene = "concurrent"
       /\ inflight.reqs[i].pc # "done"
       /\ db' = s.db
       /\ inflight' = [inflight EXCEPT !.reqs[i] = s.r]
       /\ UNCHANGED <<last, scene, probe, changedAt>>

\* user 1 alone registered
OneUserDb ==
  [EmptyDb EXCEPT !.users[1] = NewUser("a@x.io", "individual"), !.nextId = 2]

\* one or two users registered, and user 1 has started a session
InitConc ==
  /\ \E d \in {InitDb, OneUserDb} :
       db = [d EXCEPT !.sessions = <<NewSession(1, "scam_spotter", "easy")>>]
  /\ last = NoReq
  /\ scene = "concurrent"
  /\ probe = NoProbe
  /\ inflight = NoFlight
  /\ changedAt = NeverChanged

NextConc == Arrive \/ Proceed

SpecConc == InitConc /\ [][NextConc]_vars

\* the stored state and the two statuses after running the first then the
\* second of the requests, each to its response
Serial(base, first, second) ==
  LET a == Run(base, first, 0)
      b == Run(a.db, second, 0)
  IN [db |-> b.db, first |-> a.r.status, second |-> b.r.status]

\* C4: once two interleaved requests are both answered, the stored state and
\* the two responses are those of running the two requests one after the
\* other in one of the two orders
C4_InterleavingIsSerializable ==
  (/\ Len(inflight.reqs) = 2
   /\ \A i \in 1..2 : inflight.reqs[i].pc = "done")
  => LET r1 == inflight.sent[1]
         r2 == inflight.sent[2]
         s1 == inflight.reqs[1].status
         s2 == inflight.reqs[2].status
     IN \/ Serial(inflight.base, r1, r2) = [db |-> db, first |-> s1, second |-> s2]
        \/ Serial(inflight.base, r2, r1) = [db |-> db, first |-> s2, second |-> s1]

\* the families a user is the parent of
FamiliesOfParent(d, user) == {i \in 1..Len(d.families) : d.families[i].parent = user}

\* C14: each user is the parent of at most one family, however the steps of
\* two create requests interleave, and a create request of a user who was the
\* parent of a family when it arrived is answered 400
C14_OneFamilyPerParent ==
  /\ \A u \in UserIds : Cardinality(FamiliesOfParent(db, u)) <= 1
  /\ \A i \in 1..Len(inflight.reqs) :
       LET r == inflight.reqs[i]
       IN (r.route = "create" /\ r.pc = "done"
             /\ FindFamilyByParent(inflight.base, r.user) # 0)
          => (r.status = 400 /\ r.famId = 0)

\* C14 witness: two create requests of one user have both been answered 201
C14_Witness ==
  /\ Len(inflight.reqs) = 2
  /\ \A i \in 1..2 : /\ inflight.reqs[i].route = "create"
                      /\ inflight.reqs[i].pc = "done"
                      /\ inflight.reqs[i].status = 201
  /\ inflight.reqs[1].user = inflight.reqs[2].user

\* C12: no two stored users have the same email, however the steps of two
\* register requests interleave, and a register request whose email belonged
\* to a stored user when it arrived is answered 400 with the error code
\* USER_EXISTS and creates no user
C12_EmailsUnique ==
  /\ \A u, v \in UserIds :
       (db.users[u].exists /\ db.users[v].exists
          /\ db.users[u].email = db.users[v].email) => u = v
  /\ \A i \in 1..Len(inflight.reqs) :
       LET r == inflight.reqs[i]
       IN (r.route = "register" /\ r.pc = "done"
             /\ FindUserByEmail(inflight.base, r.email) # 0)
          => (r.status = 400 /\ r.errorCode = "USER_EXISTS" /\ r.sent = 1
                /\ r.user = 0)

\* C12 witness: two register requests with the same free email were handled
\* together; one created the user and the index rejected the other
C12_Witness ==
  /\ Len(inflight.reqs) = 2
  /\ \A i \in 1..2 : inflight.reqs[i].route = "register" /\ inflight.reqs[i].pc = "done"
  /\ inflight.reqs[1].email = inflight.reqs[2].email
  /\ {inflight.reqs[1].status, inflight.reqs[2].status} = {201, 500}

(***************************************************************************)
(* SpecPassword: users change their passwords (the handler run for the     *)
(* user protect is written to hand on) and present the tokens they were    *)
(* issued, before and by the change, to a protected route.                 *)
(***************************************************************************)
\* password changes per user
MaxChanges == 2

\* the response of a change-password request of user u is out
PasswordServed(out, u) ==
  /\ db' = out.db
  /\ last' = Outcome(out.r)
  /\ changedAt' = IF out.r.status = 200 THEN [changedAt EXCEPT ![u] = @ + 1]
                  ELSE changedAt
  /\ UNCHANGED <<scene, probe, inflight>>

ChangePassword ==
  \E u \in Existing(db), current \in StrongPasswords \cup {""},
     new \in StrongPasswords \cup {"short"}, k \in 0..MaxFaultStep :
    /\ scene = "router"
    /\ changedAt[u] < MaxChanges
    /\ PasswordServed(Run(db, ChangePasswordReq(u, current, new, changedAt[u] + 1), k), u)

\* a token issued to u at login before some change, or by the last change
Present ==
  \E u \in Existing(db), iat \in 0..MaxChanges,
     r \in {AnalyzeReq(0, NoContent, NoContext),
            ChangePasswordReq(0, StrongPassword, "N3wPassw0rd", 0)} :
    /\ iat <= changedAt[u]
    /\ ServePiped([r EXCEPT !.headers.authorization =
                              [scheme |-> "Bearer", token |-> signTokenAt(u, iat)]],
                  {0, 1})

NextPassword == ChangePassword \/ Present

SpecPassword == InitAuth /\ [][NextPassword]_vars

\* C11: once a user has changed the password, a request to a protected route
\* with a token issued to that user before the change is answered 401 by
\* protect, and one with the token the change returned is let through
C11_OldTokensRejectedNewAccepted ==
  [][LET token == ExtractToken(last'.headers)
     IN (/\ last'.piped /\ last'.route \in ProtectedRoutes
         /\ ValidToken(db, token)
         /\ changedAt[token.id] > 0)
        => IF token.iat < changedAt[token.id]
           THEN last'.auth.status = 401 /\ last'.auth.nexts = 0
           ELSE last'.faulted
                  \/ (last'.auth.status = 0 /\ last'.auth.nexts = 1
                        /\ last'.auth.user = token.id)]_vars

\* C11 witness: a user changed the password and then presented the token
\* that the change returned
C11_Witness ==
  LET token == ExtractToken(last.headers)
  IN /\ last.piped /\ last.route \in ProtectedRoutes
     /\ ValidToken(db, token)
     /\ changedAt[token.id] > 0 /\ token.iat = changedAt[token.id]
     /\ ~last.faulted

====
